---------------------------- MODULE Spec2Model ----------------------------
(***************************************************************************)
(* A model of the tensor engine of differential-geometry:                  *)
(*   src/src/tensors/tensor.rs   Tensor, CoordIterator, trace, mul,        *)
(*                               inner_product, unit, transpose, the LU    *)
(*                               engine, inverse, convert                  *)
(*   src/src/coordinates.rs      Point, ConversionTo::jacobian and         *)
(*                               inv_jacobian                              *)
(*                                                                         *)
(* Arrays (GenericArray) are functions on 0..len-1, so that flat offsets   *)
(* are the code's own.  Slices of indices (&[usize]) are tuples.           *)
(* The type parameters of a tensor are state: T::Dimension is the variable *)
(* dimension, and V::Rank is the field rank of a tensor value.             *)
(***************************************************************************)
EXTENDS Integers, Sequences, FiniteSets, TLC

VARIABLES
    dimension,   \* T::dimension()
    a,           \* self, the receiver of the operation
    b,           \* rhs, the second operand
    call,        \* the operation applied, with its type arguments
    out,         \* what the operation returned, or that it panicked
    iters,       \* the CoordIterators handed out by iter_coords
    trail,       \* per iterator, what its calls of next returned, in order
    conv         \* the coordinate conversion T -> T2 supplied by the user

vars == <<dimension, a, b, call, out, iters, trail, conv>>

-----------------------------------------------------------------------------
(* Bounds of the model *)

MaxDim == 3

MaxRank == 4

\* No operand has more than MaxComps components (dimension^rank).
MaxComps == 16

\* No product of two operands has more than MaxProduct components.
MaxProduct == 81

\* The components of the matrices handed to the LU engine are the integers
\* 0 .. MaxEntry.
MaxEntry == 1

\* iter_coords is called at most MaxIters times on one tensor.
MaxIters == 2

\* next is called at most MaxExtra times more than there are components.
MaxExtra == 2

\* No tensor handed to convert has more than MaxConvComps components.
MaxConvComps == 4

\* transpose is applied at most MaxTransposes times in a row.
MaxTransposes == 2

-----------------------------------------------------------------------------
(***************************************************************************)
(* f64.  A value is (n/d) * H^e with n/d a reduced fraction and H = 1e30,  *)
(* the reciprocal of the pivot floor absmin of lu_decompose.  Within one   *)
(* power of H the arithmetic is exact (the rounding of f64 is below every  *)
(* tolerance the claims speak of); across powers of H a sum keeps the      *)
(* larger term alone, which is what f64 does: with 53 bits of mantissa     *)
(* 1e30 + x == 1e30 for every |x| < 2^46.                                  *)
(***************************************************************************)

RECURSIVE GCD(_, _)
GCD(x, y) == IF y = 0 THEN x ELSE GCD(y, x % y)

IAbs(k) == IF k < 0 THEN -k ELSE k

Zero == [n |-> 0, d |-> 1, e |-> 0]

Norm(n, d, e) ==
    IF n = 0 THEN Zero
    ELSE LET s == IF d < 0 THEN -1 ELSE 1
             g == GCD(IAbs(n), IAbs(d))
         IN  [n |-> (s * n) \div g, d |-> (s * d) \div g, e |-> e]

F(k) == Norm(k, 1, 0)

One == F(1)

\* The negative zero of f64 has d = -1; every other finite value has d > 0.
NegZero == [n |-> 0, d |-> -1, e |-> 0]

\* The values that are not finite have d = 0: the two infinities and NaN.
Inf == [n |-> 1, d |-> 0, e |-> 0]

NegInf == [n |-> -1, d |-> 0, e |-> 0]

NaN == [n |-> 0, d |-> 0, e |-> 0]

IsFinite(x) == x.d # 0

IsNaN(x) == x.d = 0 /\ x.n = 0

IsZero(x) == x.n = 0 /\ x.d # 0

\* The sign bit
Negative(x) == x.n < 0 \/ (x.n = 0 /\ x.d < 0)

Sign(x) == IF x.n > 0 THEN 1 ELSE IF x.n < 0 THEN -1 ELSE 0

SignedZero(neg) == IF neg THEN NegZero ELSE Zero

SignedInf(neg) == IF neg THEN NegInf ELSE Inf

\* x + y: an exact difference of zero is +0.0, as is one of opposite zeros.
FAdd(x, y) ==
    IF IsNaN(x) \/ IsNaN(y) THEN NaN
    ELSE IF ~IsFinite(x) THEN (IF ~IsFinite(y) /\ y # x THEN NaN ELSE x)
    ELSE IF ~IsFinite(y) THEN y
    ELSE IF x.n = 0 /\ y.n = 0 THEN SignedZero(Negative(x) /\ Negative(y))
    ELSE IF x.n = 0 THEN y
    ELSE IF y.n = 0 THEN x
    ELSE IF x.e > y.e THEN x
    ELSE IF y.e > x.e THEN y
    ELSE Norm(x.n * y.d + y.n * x.d, x.d * y.d, x.e)

FNeg(x) ==
    IF IsZero(x) THEN SignedZero(~Negative(x)) ELSE [x EXCEPT !.n = -x.n]

FSub(x, y) == FAdd(x, FNeg(y))

FMul(x, y) ==
    IF IsNaN(x) \/ IsNaN(y) THEN NaN
    ELSE IF ~IsFinite(x) \/ ~IsFinite(y) THEN
        (IF IsZero(x) \/ IsZero(y) THEN NaN
         ELSE SignedInf(Negative(x) # Negative(y)))
    ELSE IF x.n = 0 \/ y.n = 0 THEN SignedZero(Negative(x) # Negative(y))
    ELSE Norm(x.n * y.n, x.d * y.d, x.e + y.e)

FDiv(x, y) ==
    IF IsNaN(x) \/ IsNaN(y) THEN NaN
    ELSE IF ~IsFinite(x) THEN
        (IF ~IsFinite(y) THEN NaN ELSE SignedInf(Negative(x) # Negative(y)))
    ELSE IF ~IsFinite(y) THEN SignedZero(Negative(x) # Negative(y))
    ELSE IF y.n = 0 THEN
        (IF x.n = 0 THEN NaN ELSE SignedInf(Negative(x) # Negative(y)))
    ELSE IF x.n = 0 THEN SignedZero(Negative(x) # Negative(y))
    ELSE Norm(x.n * y.d, x.d * y.n, x.e - y.e)

FAbs(x) == IF IsZero(x) THEN Zero ELSE [x EXCEPT !.n = IAbs(x.n)]

\* x > y
FGt(x, y) ==
    IF IsNaN(x) \/ IsNaN(y) THEN FALSE
    ELSE IF Sign(x) # Sign(y) THEN Sign(x) > Sign(y)
    ELSE IF Sign(x) = 0 THEN FALSE
    ELSE IF ~IsFinite(x) \/ ~IsFinite(y) THEN
        (IF Sign(x) > 0 THEN ~IsFinite(x) /\ IsFinite(y)
         ELSE IsFinite(x) /\ ~IsFinite(y))
    ELSE IF x.e # y.e THEN (IF Sign(x) > 0 THEN x.e > y.e ELSE x.e < y.e)
    ELSE x.n * y.d > y.n * x.d

\* x == y of f64: a NaN equals nothing, itself included, and -0.0 == 0.0.
FEq(x, y) ==
    /\ ~IsNaN(x)
    /\ ~IsNaN(y)
    /\ (x = y \/ (IsZero(x) /\ IsZero(y)))

-----------------------------------------------------------------------------
(* Sequencing *)

\* The value of a singleton set: Only({f(v) : v \in {e}}) is f of the value
\* of e, with e computed before f is entered, as statements in sequence are.
Only(S) == CHOOSE r \in S : TRUE

\* The array f with every component computed, once.
Array(f) == CHOOSE g \in {f} : g = f

-----------------------------------------------------------------------------
(* usize arithmetic *)

RECURSIVE Pow(_, _)
Pow(base, k) == IF k = 0 THEN 1 ELSE base * Pow(base, k - 1)

-----------------------------------------------------------------------------
(* Tensor<T, V>: the point p, the components x, and V::Rank *)

Tensor(p, rank, x) == [p |-> p, rank |-> rank, x |-> x]

\* What an operation hands back: a value, or the panic that ended it.
Panic == [kind |-> "panic", val |-> <<>>]

Returned(kind, val) == [kind |-> kind, val |-> val]

Pending == [kind |-> "pending", val |-> <<>>]

get_num_coords(rank) == Pow(dimension, rank)

\* GenericArray::default() of f64
ZeroArray(n) == [k \in 0 .. n - 1 |-> Zero]

zero(point, rank) == Tensor(point, rank, ZeroArray(get_num_coords(rank)))

\* Point == Point: all coordinates equal
PointEq(p, q) == \A i \in 0 .. dimension - 1 : FEq(p[i], q[i])

\* A fold that lets the first index vary fastest.
RECURSIVE FoldCoordFirstFastest(_, _)
FoldCoordFirstFastest(i, len) ==
    IF len = 0 THEN 0
    ELSE FoldCoordFirstFastest(i, len - 1) + i[len] * Pow(dimension, len - 1)

\* i.into_iter().fold(0, |res, idx| res * dim + idx)
RECURSIVE FoldCoord(_, _)
FoldCoord(i, len) ==
    IF len = 0 THEN 0 ELSE FoldCoord(i, len - 1) * dimension + i[len]

\* The two assertions of get_coord.
GetCoordAsserts(rank, i) ==
    /\ Len(i) = rank
    /\ \A k \in 1 .. Len(i) : i[k] < dimension

get_coord(i) == FoldCoord(i, Len(i))

\* self[idx] for a flat offset: the array's own bounds check
InBounds(t, idx) == idx \in DOMAIN t.x

\* self[&[..]]: Index<&[usize]>
Index(t, i) ==
    IF ~GetCoordAsserts(t.rank, i) \/ ~InBounds(t, get_coord(i)) THEN Panic
    ELSE Returned("f64", t.x[get_coord(i)])

\* let mut sum = 0.0; for i in 0..k { sum += term[i] }
RECURSIVE SumTo(_, _)
SumTo(term, k) ==
    IF k = 0 THEN Zero
    ELSE Only({FAdd(sum, term[k - 1]) : sum \in {SumTo(term, k - 1)}})

\* trace with the strides of the summed index taken without the factor dim.
TraceOffsetShortStride(rank, index1, index2, coord, i) ==
    LET dim == dimension
        modh == Pow(dim, rank - 1 - index2)
        modl == Pow(dim, rank - 2 - index1)
        coord1 == coord \div modl
        coord1rest == coord % modl
        coord2 == coord1rest \div modh
        coord2rest == coord1rest % modh
        coord_template ==
            coord1 * modl * dim * dim + coord2 * modh * dim + coord2rest
    IN  coord_template + i * modl + i * modh

\* The offset of the i-th summand of result component coord in trace.
TraceOffset(rank, index1, index2, coord, i) ==
    LET dim == dimension
        modh == Pow(dim, rank - 1 - index2)
        modl == Pow(dim, rank - 2 - index1)
        coord1 == coord \div modl
        coord1rest == coord % modl
        coord2 == coord1rest \div modh
        coord2rest == coord1rest % modh
        coord_template ==
            coord1 * modl * dim * dim + coord2 * modh * dim + coord2rest
    IN  coord_template + i * modl * dim + i * modh

trace(t, index1, index2) ==
    LET num_coords_result == get_num_coords(t.rank - 2)
        Off(coord, i) == TraceOffset(t.rank, index1, index2, coord, i)
    IN  IF \E coord \in 0 .. num_coords_result - 1, i \in 0 .. dimension - 1 :
               ~InBounds(t, Off(coord, i))
        THEN Panic
        ELSE Returned("tensor", Tensor(t.p, t.rank - 2,
                 [coord \in 0 .. num_coords_result - 1 |->
                     SumTo([i \in 0 .. dimension - 1 |-> t.x[Off(coord, i)]],
                           dimension)]))

\* A product that splits the offset by the size of the first operand.
MulComponentSwapped(t, rhs, coord) ==
    LET num_coords1 == get_num_coords(t.rank)
        coord1 == coord % num_coords1
        coord2 == coord \div num_coords1
    IN  FMul(t.x[coord1], rhs.x[coord2])

\* Mul<Tensor<T, V>> for Tensor<T, U>: one component of the product
MulComponent(t, rhs, coord) ==
    LET num_coords2 == get_num_coords(rhs.rank)
        coord1 == coord \div num_coords2
        coord2 == coord % num_coords2
    IN  FMul(t.x[coord1], rhs.x[coord2])

mul(t, rhs) ==
    LET num_coords_result == get_num_coords(t.rank + rhs.rank)
    IN  IF ~PointEq(t.p, rhs.p) THEN Panic
        ELSE Returned("tensor", Tensor(t.p, t.rank + rhs.rank,
                 [coord \in 0 .. num_coords_result - 1 |->
                     MulComponent(t, rhs, coord)]))

\* assert!(self.p == rhs.p); for i in 0..get_num_coords() { self[i] += rhs[i] }
add_assign(t, rhs) ==
    IF ~PointEq(t.p, rhs.p) THEN Panic
    ELSE Returned("tensor", Tensor(t.p, t.rank,
             [i \in 0 .. get_num_coords(t.rank) - 1 |-> FAdd(t.x[i], rhs.x[i])]))

\* assert!(self.p == rhs.p); for i in 0..get_num_coords() { self[i] -= rhs[i] }
sub_assign(t, rhs) ==
    IF ~PointEq(t.p, rhs.p) THEN Panic
    ELSE Returned("tensor", Tensor(t.p, t.rank,
             [i \in 0 .. get_num_coords(t.rank) - 1 |-> FSub(t.x[i], rhs.x[i])]))

-----------------------------------------------------------------------------
(* InnerProduct<Tensor<T, V>, Ul, Uh> for Tensor<T, U> *)

\* let (modl, modh, modv) = match (indexl < u_rank, indexh < u_rank)
InnerMods(u_rank, v_rank, indexl, indexh) ==
    LET dim == dimension
    IN  IF indexl < u_rank /\ indexh < u_rank THEN
            [modl |-> Pow(dim, u_rank - 2 - indexl),
             modh |-> Pow(dim, u_rank - 1 - indexh),
             modv |-> Pow(dim, v_rank)]
        ELSE IF indexl < u_rank THEN
            [modl |-> Pow(dim, u_rank - 1 - indexl),
             modh |-> Pow(dim, u_rank + v_rank - 1 - indexh),
             modv |-> Pow(dim, v_rank - 1)]
        ELSE
            [modl |-> Pow(dim, u_rank + v_rank - 2 - indexl),
             modh |-> Pow(dim, u_rank + v_rank - 1 - indexh),
             modv |-> Pow(dim, v_rank)]

\* Each closure yields (coord1, coord2, step1, step2).
to_templates_both1(m, coord) ==
    LET dim == dimension
        coords1 == coord \div m.modv
        coords2 == coord % m.modv
        coords1part1 == coords1 \div m.modl
        coords1part2 == (coords1 % m.modl) \div m.modh
        coords1part3 == coords1 % m.modh
    IN  [coord1 |-> coords1part1 * m.modl * dim * dim
                        + coords1part2 * m.modh * dim + coords1part3,
         coord2 |-> coords2,
         step1 |-> m.modl + m.modh,
         step2 |-> 0]

to_templates_both2(m, coord) ==
    LET dim == dimension
        coords1 == coord \div m.modv
        coords2 == coord % m.modv
        coords2part1 == coords2 \div m.modl
        coords2part2 == (coords2 % m.modl) \div m.modh
        coords2part3 == coords2 % m.modh
    IN  [coord1 |-> coords1,
         coord2 |-> coords2part1 * m.modl * dim * dim
                        + coords2part2 * m.modh * dim + coords2part3,
         step1 |-> 0,
         step2 |-> m.modl + m.modh]

\* The split case with the second operand stepped by one component.
to_templates_unit_step(m, coord) ==
    LET dim == dimension
        coords1 == coord \div m.modv
        coords2 == coord % m.modv
        coords1part1 == coords1 \div m.modl
        coords1part2 == coords1 % m.modl
        coords2part1 == coords2 \div m.modh
        coords2part2 == coords2 % m.modh
    IN  [coord1 |-> coords1part1 * m.modl * dim + coords1part2,
         coord2 |-> coords2part1 * m.modh * dim + coords2part2,
         step1 |-> m.modl,
         step2 |-> 1]

to_templates(m, coord) ==
    LET dim == dimension
        coords1 == coord \div m.modv
        coords2 == coord % m.modv
        coords1part1 == coords1 \div m.modl
        coords1part2 == coords1 % m.modl
        coords2part1 == coords2 \div m.modh
        coords2part2 == coords2 % m.modh
    IN  [coord1 |-> coords1part1 * m.modl * dim + coords1part2,
         coord2 |-> coords2part1 * m.modh * dim + coords2part2,
         step1 |-> m.modl,
         step2 |-> m.modh]

\* let templates = match (indexl < u_rank, indexh < u_rank)
templates(u_rank, v_rank, indexl, indexh, coord) ==
    LET m == InnerMods(u_rank, v_rank, indexl, indexh)
    IN  IF indexl >= u_rank /\ indexh >= u_rank THEN to_templates_both2(m, coord)
        ELSE IF indexl < u_rank /\ indexh >= u_rank THEN to_templates(m, coord)
        ELSE to_templates_both1(m, coord)

inner_product(t, rhs, indexl, indexh) ==
    LET num_coords_result == get_num_coords(t.rank + rhs.rank - 2)
        Tpl(coord) == templates(t.rank, rhs.rank, indexl, indexh, coord)
        \* the offsets read in the k-th round of the loop for _ in 0..dim
        Off1(coord, k) == Tpl(coord).coord1 + k * Tpl(coord).step1
        Off2(coord, k) == Tpl(coord).coord2 + k * Tpl(coord).step2
    IN  IF ~PointEq(t.p, rhs.p) THEN Panic
        ELSE IF \E coord \in 0 .. num_coords_result - 1, k \in 0 .. dimension - 1 :
                   ~InBounds(t, Off1(coord, k)) \/ ~InBounds(rhs, Off2(coord, k))
        THEN Panic
        ELSE Returned("tensor", Tensor(t.p, t.rank + rhs.rank - 2,
                 [coord \in 0 .. num_coords_result - 1 |->
                     SumTo([k \in 0 .. dimension - 1 |->
                               FMul(t.x[Off1(coord, k)], rhs.x[Off2(coord, k)])],
                           dimension)]))

-----------------------------------------------------------------------------
(* The inputs the specifications draw from *)

Origin == [i \in 0 .. dimension - 1 |-> Zero]

\* The origin moved by one along axis j.
Shifted(j) == [i \in 0 .. dimension - 1 |-> IF i = j THEN One ELSE Zero]

OneHot(n, k) == [i \in 0 .. n - 1 |-> IF i = k THEN One ELSE Zero]

Ramp(n) == [i \in 0 .. n - 1 |-> F(i + 1)]

\* Component arrays of length n: each basis array, and one whose components
\* all differ.
Arrays(n) == {Ramp(n)} \cup {OneHot(n, k) : k \in 0 .. n - 1}

Ranks == {r \in 0 .. MaxRank : Pow(dimension, r) <= MaxComps}

TensorsAt(p) ==
    UNION {{Tensor(p, r, x) : x \in Arrays(get_num_coords(r))} : r \in Ranks}

ScalarOne == Tensor(Origin, 0, [k \in {0} |-> One])

NoCall == [op |-> "none", args |-> <<>>]

Called(op, args) == [op |-> op, args |-> args]

NoIterators == <<>>

NoConversion == <<>>

-----------------------------------------------------------------------------
(* Operations on one tensor *)

InitUnary ==
    /\ dimension \in 1 .. MaxDim
    /\ a \in TensorsAt(Origin)
    /\ b = ScalarOne
    /\ call = NoCall
    /\ out = Pending
    /\ iters = NoIterators
    /\ trail = <<>>
    /\ conv = NoConversion

\* The index slices tried: every slice of the tensor's rank with entries up
\* to dimension (one beyond the last valid entry), and the valid slices
\* that are one entry too long.
Slices(t) ==
    [1 .. t.rank -> 0 .. dimension] \cup [1 .. t.rank + 1 -> 0 .. dimension - 1]

IndexOp(i) ==
    /\ call = NoCall
    /\ call' = Called("index", i)
    /\ out' = Index(a, i)
    /\ UNCHANGED <<dimension, a, b, iters, trail, conv>>

TraceOp(index1, index2) ==
    /\ call = NoCall
    /\ index1 < index2
    /\ index2 < a.rank
    /\ call' = Called("trace", <<index1, index2>>)
    /\ out' = trace(a, index1, index2)
    /\ UNCHANGED <<dimension, a, b, iters, trail, conv>>

NextUnary ==
    \/ \E i \in Slices(a) : IndexOp(i)
    \/ \E index1, index2 \in 0 .. MaxRank : TraceOp(index1, index2)

SpecUnary == InitUnary /\ [][NextUnary]_vars

-----------------------------------------------------------------------------
(* Operations on two tensors *)

InitBinary ==
    /\ dimension \in 1 .. MaxDim
    /\ a \in TensorsAt(Origin)
    /\ b \in TensorsAt(Origin) \cup UNION {TensorsAt(Shifted(j)) : j \in 0 .. dimension - 1}
    /\ get_num_coords(a.rank + b.rank) <= MaxProduct
    /\ call = NoCall
    /\ out = Pending
    /\ iters = NoIterators
    /\ trail = <<>>
    /\ conv = NoConversion

MulOp ==
    /\ call = NoCall
    /\ call' = Called("mul", <<>>)
    /\ out' = mul(a, b)
    /\ UNCHANGED <<dimension, a, b, iters, trail, conv>>

\* Add::add, for operands of one type Tensor<T, U>
AddOp ==
    /\ call = NoCall
    /\ a.rank = b.rank
    /\ call' = Called("add", <<>>)
    /\ out' = add_assign(a, b)
    /\ UNCHANGED <<dimension, a, b, iters, trail, conv>>

\* Sub::sub, for operands of one type Tensor<T, U>
SubOp ==
    /\ call = NoCall
    /\ a.rank = b.rank
    /\ call' = Called("sub", <<>>)
    /\ out' = sub_assign(a, b)
    /\ UNCHANGED <<dimension, a, b, iters, trail, conv>>

InnerProductOp(indexl, indexh) ==
    /\ call = NoCall
    /\ indexl < indexh
    /\ indexh < a.rank + b.rank
    /\ call' = Called("inner_product", <<indexl, indexh>>)
    /\ out' = inner_product(a, b, indexl, indexh)
    /\ UNCHANGED <<dimension, a, b, iters, trail, conv>>

NextBinary ==
    \/ MulOp
    \/ AddOp
    \/ SubOp
    \/ \E indexl, indexh \in 0 .. 2 * MaxRank : InnerProductOp(indexl, indexh)

SpecBinary == InitBinary /\ [][NextBinary]_vars

-----------------------------------------------------------------------------
(* CoordIterator<U> *)

\* CoordIterator::new(dimension): cur_coord is GenericArray::default()
CoordIteratorNew(dim, rank) ==
    [started |-> FALSE, dimension |-> dim, cur_coord |-> [k \in 1 .. rank |-> 0]]

iter_coords(t) == CoordIteratorNew(dimension, t.rank)

\* The loop of next with the slots visited from the first one upwards.
RECURSIVE AdvanceFromFirst(_, _, _)
AdvanceFromFirst(cur, dim, i) ==
    LET j == Len(cur) - 1 - i
        bumped == [cur EXCEPT ![j + 1] = cur[j + 1] + 1]
        wrapped == [cur EXCEPT ![j + 1] = 0]
    IN  IF bumped[j + 1] < dim THEN [cur_coord |-> bumped, some |-> TRUE]
        ELSE IF i = 0 THEN [cur_coord |-> wrapped, some |-> FALSE]
        ELSE AdvanceFromFirst(wrapped, dim, i - 1)

\* The loop of next from slot i (counted from 0) downwards: the coordinates
\* it leaves, and whether it broke out (Some) or returned None at i == 0.
RECURSIVE Advance(_, _, _)
Advance(cur, dim, i) ==
    LET bumped == [cur EXCEPT ![i + 1] = cur[i + 1] + 1]
        wrapped == [cur EXCEPT ![i + 1] = 0]
    IN  IF bumped[i + 1] < dim THEN [cur_coord |-> bumped, some |-> TRUE]
        ELSE IF i = 0 THEN [cur_coord |-> wrapped, some |-> FALSE]
        ELSE Advance(wrapped, dim, i - 1)

None == Returned("None", <<>>)

Some(v) == Returned("Some", v)

\* Iterator::next: the iterator afterwards and the item returned
next(it) ==
    IF ~it.started THEN
        [it |-> [it EXCEPT !.started = TRUE], ret |-> Some(it.cur_coord)]
    ELSE IF Len(it.cur_coord) = 0 THEN
        [it |-> it, ret |-> None]
    ELSE
        LET adv == Advance(it.cur_coord, it.dimension, Len(it.cur_coord) - 1)
        IN  [it |-> [it EXCEPT !.cur_coord = adv.cur_coord],
             ret |-> IF adv.some THEN Some(adv.cur_coord) ELSE None]

InitIter ==
    /\ dimension \in 1 .. MaxDim
    /\ a \in {zero(Origin, r) : r \in Ranks}
    /\ b = ScalarOne
    /\ call = NoCall
    /\ out = Pending
    /\ iters = NoIterators
    /\ trail = <<>>
    /\ conv = NoConversion

IterCoordsOp ==
    /\ Len(iters) < MaxIters
    /\ iters' = Append(iters, iter_coords(a))
    /\ trail' = Append(trail, <<>>)
    /\ call' = Called("iter_coords", <<>>)
    /\ out' = Pending
    /\ UNCHANGED <<dimension, a, b, conv>>

NextOp(k) ==
    /\ k \in DOMAIN iters
    /\ Len(trail[k]) < get_num_coords(a.rank) + MaxExtra
    /\ iters' = [iters EXCEPT ![k] = next(iters[k]).it]
    /\ trail' = [trail EXCEPT ![k] = Append(trail[k], next(iters[k]).ret)]
    /\ call' = Called("next", <<k>>)
    /\ out' = next(iters[k]).ret
    /\ UNCHANGED <<dimension, a, b, conv>>

NextIter ==
    \/ IterCoordsOp
    \/ \E k \in 1 .. MaxIters : NextOp(k)

SpecIter == InitIter /\ [][NextIter]_vars

-----------------------------------------------------------------------------
(* The LU engine of rank 2 tensors: lu_decompose, lu_substitution, inverse *)

\* self[&[i, j]] on the component array x of a rank 2 tensor
At(x, i, j) == x[get_coord(<<i, j>>)]

Put(x, i, j, v) == [x EXCEPT ![get_coord(<<i, j>>)] = v]

\* const absmin: 1.0e-30, which is 1/H
absmin == [n |-> 1, d |-> 1, e |-> -1]

\* for k in 0..len { self[i, j] -= self[i, k] * self[k, j] }: the value of
\* self[i, j] afterwards (no term of the sum is self[i, j] itself)
RECURSIVE SubDot(_, _, _, _)
SubDot(x, i, j, len) ==
    IF len = 0 THEN At(x, i, j)
    ELSE FSub(SubDot(x, i, j, len - 1),
              FMul(At(x, i, len - 1), At(x, len - 1, j)))

\* for j in 0..len { absmax = max(absmax, |self[i, j]|) }
RECURSIVE RowAbsMax(_, _, _)
RowAbsMax(x, i, len) ==
    IF len = 0 THEN Zero
    ELSE Only({IF FGt(FAbs(At(x, i, len - 1)), absmax)
               THEN FAbs(At(x, i, len - 1)) ELSE absmax :
               absmax \in {RowAbsMax(x, i, len - 1)}})

\* Row i of the first loop of lu_decompose: return None if absmax == 0.0,
\* else row_norm[i] = 1.0 / absmax.
RowNorm(before, i, absmax) ==
    IF before.singular \/ FEq(absmax, Zero)
    THEN [singular |-> TRUE, row_norm |-> before.row_norm]
    ELSE [singular |-> FALSE,
          row_norm |-> [before.row_norm EXCEPT ![i] = FDiv(One, absmax)]]

\* The first loop of lu_decompose over the rows 0..len: the row norms, or
\* that a row without a non-zero entry was met.
RECURSIVE RowNorms(_, _)
RowNorms(x, len) ==
    IF len = 0 THEN [singular |-> FALSE, row_norm |-> ZeroArray(dimension)]
    ELSE Only({Only({RowNorm(before, len - 1, absmax) :
                     absmax \in {RowAbsMax(x, len - 1, dimension)}}) :
               before \in {RowNorms(x, len - 1)}})

\* for i in 0..len { for k in 0..i { self[i, j] -= self[i, k] * self[k, j] } }
RECURSIVE UpperLoop(_, _, _)
UpperLoop(x, j, len) ==
    IF len = 0 THEN x
    ELSE Only({Put(before, len - 1, j, SubDot(before, len - 1, j, len - 1)) :
               before \in {UpperLoop(x, j, len - 1)}})

\* if maxtemp > absmax { absmax = maxtemp; max_row = i }
PivotChoice(before, x, i, maxtemp) ==
    IF FGt(maxtemp, before.absmax)
    THEN [x |-> x, absmax |-> maxtemp, max_row |-> i]
    ELSE [x |-> x, absmax |-> before.absmax, max_row |-> before.max_row]

\* Row i of the pivot search of column j: self[i, j] less the sum over
\* k in 0..j, then maxtemp = |self[i, j]| * row_norm[i].
PivotRow(before, row_norm, j, i) ==
    Only({PivotChoice(before, x, i, FMul(FAbs(At(x, i, j)), row_norm[i])) :
          x \in {Put(before.x, i, j, SubDot(before.x, i, j, j))}})

\* The pivot search of column j over the rows j..j+len: st carries the
\* matrix x, absmax and max_row.
RECURSIVE PivotLoop(_, _, _, _)
PivotLoop(st, row_norm, j, len) ==
    IF len = 0 THEN st
    ELSE Only({PivotRow(before, row_norm, j, j + len - 1) :
               before \in {PivotLoop(st, row_norm, j, len - 1)}})

\* for k in 0..len { swap(self[j, k], self[max_row, k]) }
RECURSIVE SwapRows(_, _, _, _)
SwapRows(x, j, max_row, len) ==
    IF len = 0 THEN x
    ELSE Only({Put(Put(before, j, len - 1, At(before, max_row, len - 1)),
                   max_row, len - 1, At(before, j, len - 1)) :
               before \in {SwapRows(x, j, max_row, len - 1)}})

\* for i in j+1..j+1+len { self[i, j] *= maxtemp }
RECURSIVE ScaleColumn(_, _, _, _)
ScaleColumn(x, j, maxtemp, len) ==
    IF len = 0 THEN x
    ELSE Only({Put(before, j + len, j, FMul(At(before, j + len, j), maxtemp)) :
               before \in {ScaleColumn(x, j, maxtemp, len - 1)}})

\* The end of a round of for j in 0..n: result[j] = max_row, and the
\* column below the pivot scaled by 1.0 / self[j, j] unless j is the last.
LuScaled(j, x, row_norm, max_row, result) ==
    [x |-> IF j # dimension - 1
           THEN ScaleColumn(x, j, FDiv(One, At(x, j, j)), dimension - 1 - j)
           ELSE x,
     row_norm |-> row_norm,
     max_row |-> max_row,
     result |-> [result EXCEPT ![j] = max_row]]

\* if self[j, j] == 0.0 { self[j, j] = absmin }
LuFloored(j, x, row_norm, max_row, result) ==
    Only({LuScaled(j, floored, row_norm, max_row, result) :
          floored \in {IF FEq(At(x, j, j), Zero)
                       THEN Put(x, j, j, absmin) ELSE x}})

\* The rows j and max_row swapped, and row_norm[max_row] = row_norm[j],
\* unless the pivot search is to be kept at row j.
LuSwapped(st, j, piv, keep) ==
    Only({LuFloored(j, swapped,
                    IF keep THEN st.row_norm
                    ELSE [st.row_norm EXCEPT ![piv.max_row] = st.row_norm[j]],
                    IF keep THEN j ELSE piv.max_row,
                    st.result) :
          swapped \in {IF keep THEN piv.x
                       ELSE SwapRows(piv.x, j, piv.max_row, dimension)}})

\* if max_row != j { if (j == n - 2) && self[j, j + 1] == 0.0 { max_row = j }
\* else { swap } }
LuPivoted(st, j, piv) ==
    LuSwapped(st, j, piv,
              piv.max_row = j
                  \/ (j = dimension - 2 /\ FEq(At(piv.x, j, j + 1), Zero)))

\* One round of for j in 0..n: st carries x, row_norm, max_row and
\* result, the permutation vector.  max_row is not reset between rounds.
LuColumn(st, j) ==
    Only({LuPivoted(st, j, piv) :
          piv \in {PivotLoop([x |-> UpperLoop(st.x, j, j), absmax |-> Zero,
                              max_row |-> st.max_row],
                             st.row_norm, j, dimension - j)}})

\* for j in 0..len: round j starts from the state the rounds before it left.
RECURSIVE LuColumns(_, _)
LuColumns(st, len) ==
    IF len = 0 THEN st
    ELSE Only({LuColumn(prev, len - 1) : prev \in {LuColumns(st, len - 1)}})

LuDone(done) == Some([x |-> done.x, permute |-> done.result])

LuFrom(x, norms) ==
    IF norms.singular THEN None
    ELSE LuDone(LuColumns([x |-> x, row_norm |-> norms.row_norm, max_row |-> 0,
                           result |-> [k \in 0 .. dimension - 1 |-> 0]],
                          dimension))

\* lu_decompose on the components x: None, or Some of the permutation
\* vector with x as the decomposition left it in place.
lu_decompose(x) == LuFrom(x, RowNorms(x, dimension))

\* for j in (0..len).rev() { tmp -= self[i, j] * result[j] }
RECURSIVE ForwardDot(_, _, _, _, _)
ForwardDot(x, result, tmp, i, len) ==
    IF len = 0 THEN tmp
    ELSE Only({ForwardDot(x, result, less, i, len - 1) :
               less \in {FSub(tmp, FMul(At(x, i, len - 1), result[len - 1]))}})

\* Row i of the first loop of lu_substitution: tmp = result[permute[i]];
\* result[permute[i]] = result[i]; the sum; result[i] = tmp.
ForwardRow(x, permute, before, i) ==
    Only({[moved EXCEPT ![i] = ForwardDot(x, moved, before[permute[i]], i, i)] :
          moved \in {[before EXCEPT ![permute[i]] = before[i]]}})

\* The first loop of lu_substitution, for i in 0..len
RECURSIVE ForwardLoop(_, _, _, _)
ForwardLoop(x, permute, result, len) ==
    IF len = 0 THEN result
    ELSE Only({ForwardRow(x, permute, before, len - 1) :
               before \in {ForwardLoop(x, permute, result, len - 1)}})

\* for j in i+1..i+1+len { result[i] -= self[i, j] * result[j] }
RECURSIVE BackDot(_, _, _, _)
BackDot(x, result, i, len) ==
    IF len = 0 THEN result[i]
    ELSE FSub(BackDot(x, result, i, len - 1),
              FMul(At(x, i, i + len), result[i + len]))

\* The second loop of lu_substitution, for i in (0..n).rev(), down to row i
RECURSIVE BackLoop(_, _, _)
BackLoop(x, result, i) ==
    IF i = dimension THEN result
    ELSE Only({[before EXCEPT ![i] =
                   FDiv(BackDot(x, before, i, dimension - 1 - i), At(x, i, i))] :
               before \in {BackLoop(x, result, i + 1)}})

lu_substitution(x, rhs, permute) ==
    Only({BackLoop(x, forward, 0) :
          forward \in {ForwardLoop(x, permute, rhs, dimension)}})

\* let mut dxm = default(); dxm[i] = 1.0
UnitColumn(i) == [k \in 0 .. dimension - 1 |-> IF k = i THEN One ELSE Zero]

\* for k in 0..n { result[&[k, i]] = x[k] }, for the solutions cols[i]
Assemble(cols) ==
    [c \in 0 .. dimension * dimension - 1 |->
        cols[c % dimension][c \div dimension]]

\* for i in 0..len { x = tmp.lu_substitution(&dxm, &permute) }
RECURSIVE Solutions(_, _)
Solutions(lu, len) ==
    IF len = 0 THEN <<>>
    ELSE Only({[k \in 0 .. len - 1 |->
                   IF k < len - 1 THEN before[k]
                   ELSE lu_substitution(lu.x, UnitColumn(k), lu.permute)] :
               before \in {Solutions(lu, len - 1)}})

InverseFrom(t, lu) ==
    IF lu = None THEN None
    ELSE Only({Some(Tensor(t.p, 2, Assemble(cols))) :
               cols \in {Solutions(lu.val, dimension)}})

\* inverse: None, or Some of the tensor whose column i solves self * x = e_i
inverse(t) == Only({InverseFrom(t, lu) : lu \in {lu_decompose(t.x)}})

Matrices ==
    {Tensor(Origin, 2, [c \in 0 .. dimension * dimension - 1 |-> F(x[c])]) :
        x \in [0 .. dimension * dimension - 1 -> 0 .. MaxEntry]}

InitInverse ==
    /\ dimension \in 1 .. MaxDim
    /\ a \in Matrices
    /\ b = ScalarOne
    /\ call = NoCall
    /\ out = Pending
    /\ iters = NoIterators
    /\ trail = <<>>
    /\ conv = NoConversion

InverseOp ==
    /\ call = NoCall
    /\ call' = Called("inverse", <<>>)
    /\ out' = inverse(a)
    /\ UNCHANGED <<dimension, a, b, iters, trail, conv>>

\* lu_decompose on a copy of the tensor, as inverse calls it
LuDecomposeOp ==
    /\ call = NoCall
    /\ call' = Called("lu_decompose", <<>>)
    /\ out' = lu_decompose(a.x)
    /\ UNCHANGED <<dimension, a, b, iters, trail, conv>>

NextInverse ==
    \/ InverseOp
    \/ LuDecomposeOp

SpecInverse == InitInverse /\ [][NextInverse]_vars

-----------------------------------------------------------------------------
(***************************************************************************)
(* ConversionTo<T2> for T.  convert_point is the part the implementor of   *)
(* the trait writes: here it is the linear map with the matrix conv.map.   *)
(* conv.variance is <U as Variance>::variance() of the tensor a, one        *)
(* IndexType for each of its indices; the operators of convert take the    *)
(* variance of the tensor they convert as the parameter variance.          *)
(***************************************************************************)

IndexType == {"Covariant", "Contravariant"}

\* CoordinateSystem::small: 0.01
small == [n |-> 1, d |-> 100, e |-> 0]

convert_point(p) ==
    Array([i \in 0 .. dimension - 1 |->
              SumTo([k \in 0 .. dimension - 1 |-> FMul(At(conv.map, i, k), p[k])],
                    dimension)])

\* let mut x = p.clone(); x[j] = x[j] - h
Lowered(p, j) == [p EXCEPT ![j] = FSub(p[j], small)]

\* x[j] = x[j] + h * 2.0, for the x that was lowered
Raised(x, j) == [x EXCEPT ![j] = FAdd(x[j], FMul(small, F(2)))]

\* Column j of the Jacobian: (y2[i] - y1[i]) / (2.0 * h) for every i
JacobianColumn(y1, y2) ==
    Array([i \in 0 .. dimension - 1 |->
              FDiv(FSub(y2[i], y1[i]), FMul(F(2), small))])

\* The columns 0 .. len-1 of the Jacobian at p
RECURSIVE JacobianColumns(_, _)
JacobianColumns(p, len) ==
    IF len = 0 THEN <<>>
    ELSE Only({[j \in 0 .. len - 1 |->
                   IF j < len - 1 THEN before[j]
                   ELSE JacobianColumn(convert_point(Lowered(p, j)),
                                       convert_point(Raised(Lowered(p, j), j)))] :
               before \in {JacobianColumns(p, len - 1)}})

\* result[&[i, j]] = column j at i, on Matrix::zero(convert_point(p))
JacobianFrom(p, cols) ==
    Tensor(convert_point(p), 2,
           Array([c \in 0 .. dimension * dimension - 1 |->
                     cols[c % dimension][c \div dimension]]))

jacobian(p) ==
    Only({JacobianFrom(p, cols) : cols \in {JacobianColumns(p, dimension)}})

\* .unwrap(): the value of a Some, the panic on None
unwrap(option) ==
    IF option = None THEN Panic ELSE Returned("tensor", option.val)

\* ConversionTo::<T>::jacobian(p).inverse().unwrap()
inv_jacobian(p) ==
    Only({Only({unwrap(inv) : inv \in {inverse(jac)}}) : jac \in {jacobian(p)}})

\* The multi-index that iter_coords yields as its k-th (from 0): the one
\* with the flat offset k.
CoordAt(k, rank) ==
    [m \in 1 .. rank |-> (k \div Pow(dimension, rank - m)) % dimension]

\* The factors with the inverse Jacobian read at [j[k], i[k]].
RECURSIVE ConvertFactorsTransposed(_, _, _, _, _, _, _)
ConvertFactorsTransposed(temp2, jac, inv, variance, i, j, len) ==
    IF len = 0 THEN temp2
    ELSE FMul(ConvertFactorsTransposed(temp2, jac, inv, variance, i, j, len - 1),
              IF variance[len] = "Covariant"
              THEN At(inv, j[len], i[len])
              ELSE At(jac, i[len], j[len]))

\* for (k, v) in variance.iter().enumerate().take(len) { temp2 *= match v {
\* Covariant => inv_jacobian[i[k], j[k]], Contravariant => jacobian[..] } }
RECURSIVE ConvertFactors(_, _, _, _, _, _, _)
ConvertFactors(temp2, jac, inv, variance, i, j, len) ==
    IF len = 0 THEN temp2
    ELSE FMul(ConvertFactors(temp2, jac, inv, variance, i, j, len - 1),
              IF variance[len] = "Covariant"
              THEN At(inv, i[len], j[len])
              ELSE At(jac, i[len], j[len]))

\* for j in self.iter_coords().take(len) { temp += temp2 }
RECURSIVE ConvertSum(_, _, _, _, _, _)
ConvertSum(t, jac, inv, variance, i, len) ==
    IF len = 0 THEN Zero
    ELSE Only({FAdd(temp, ConvertFactors(t.x[len - 1], jac, inv, variance, i,
                                         CoordAt(len - 1, t.rank), t.rank)) :
               temp \in {ConvertSum(t, jac, inv, variance, i, len - 1)}})

\* for i in result.iter_coords() { result[&*i] = temp }
ConvertWith(t, jac, inv, variance) ==
    IF inv = Panic THEN Panic
    ELSE Returned("tensor",
             Tensor(convert_point(t.p), t.rank,
                    Array([c \in 0 .. get_num_coords(t.rank) - 1 |->
                              ConvertSum(t, jac.x, inv.val.x, variance,
                                         CoordAt(c, t.rank),
                                         get_num_coords(t.rank))])))

\* Tensor<T, U>::convert, with variance for <U as Variance>::variance()
ConvertTyped(t, variance) ==
    Only({Only({ConvertWith(t, jac, inv, variance) :
                inv \in {inv_jacobian(t.p)}}) :
          jac \in {jacobian(t.p)}})

\* convert of the tensor a, whose variance is conv.variance
convert(t) == ConvertTyped(t, conv.variance)

\* The linear maps with the matrix entries 0 .. MaxEntry, with a variance
\* for a tensor of the given rank.
Conversions(rank) ==
    {[map |-> m.x, variance |-> v] :
        m \in Matrices, v \in [1 .. rank -> IndexType]}

InitConvert ==
    /\ dimension \in 1 .. MaxDim
    /\ \E p \in {Origin, Shifted(0)} :
           a \in {t \in TensorsAt(p) : get_num_coords(t.rank) <= MaxConvComps}
    /\ b = ScalarOne
    /\ call = NoCall
    /\ out = Pending
    /\ iters = NoIterators
    /\ trail = <<>>
    /\ conv \in Conversions(a.rank)

JacobianOp ==
    /\ call = NoCall
    /\ call' = Called("jacobian", <<>>)
    /\ out' = Returned("tensor", jacobian(a.p))
    /\ UNCHANGED <<dimension, a, b, iters, trail, conv>>

InvJacobianOp ==
    /\ call = NoCall
    /\ call' = Called("inv_jacobian", <<>>)
    /\ out' = inv_jacobian(a.p)
    /\ UNCHANGED <<dimension, a, b, iters, trail, conv>>

ConvertOp ==
    /\ call = NoCall
    /\ call' = Called("convert", <<>>)
    /\ out' = convert(a)
    /\ UNCHANGED <<dimension, a, b, iters, trail, conv>>

NextConvert ==
    \/ JacobianOp
    \/ InvJacobianOp
    \/ ConvertOp

SpecConvert == InitConvert /\ [][NextConvert]_vars

(* A covector a and a vector b at one point, contracted before and after   *)
(* both are converted.                                                     *)

\* <CovariantIndex as Variance>::variance(), the variance of a Covector
CovariantIndex == <<"Covariant">>

\* <ContravariantIndex as Variance>::variance(), that of a Vector
ContravariantIndex == <<"Contravariant">>

InitContract ==
    /\ dimension \in 1 .. MaxDim
    /\ \E p \in {Origin, Shifted(0)} :
           /\ a \in {t \in TensorsAt(p) : t.rank = 1}
           /\ b \in {t \in TensorsAt(p) : t.rank = 1}
    /\ call = NoCall
    /\ out = Pending
    /\ iters = NoIterators
    /\ trail = <<>>
    /\ conv \in {c \in Conversions(1) : c.variance = CovariantIndex}

\* inner_product of two results, the panic of either passed on
InnerProductOf(l, r) ==
    IF l = Panic \/ r = Panic THEN Panic
    ELSE inner_product(l.val, r.val, 0, 1)

\* a.inner_product::<_, U0, U1>(b)
ContractOp ==
    /\ call = NoCall
    /\ call' = Called("inner_product", <<0, 1>>)
    /\ out' = inner_product(a, b, 0, 1)
    /\ UNCHANGED <<dimension, a, b, iters, trail, conv>>

\* a.convert().inner_product::<_, U0, U1>(b.convert())
ConvertContractOp ==
    /\ call = NoCall
    /\ call' = Called("convert.inner_product", <<0, 1>>)
    /\ out' = Only({Only({InnerProductOf(l, r) :
                          r \in {ConvertTyped(b, ContravariantIndex)}}) :
                    l \in {ConvertTyped(a, CovariantIndex)}})
    /\ UNCHANGED <<dimension, a, b, iters, trail, conv>>

NextContract ==
    \/ ContractOp
    \/ ConvertContractOp

SpecContract == InitContract /\ [][NextContract]_vars

-----------------------------------------------------------------------------
(* unit and transpose of Tensor<T, (Ul, Ur)> *)

\* A unit tensor with the ones in the first column.
UnitCoordsFirstColumn(i) == <<i, 0>>

\* let coords: &[usize] = &[i, i]
UnitCoords(i) == <<i, i>>

\* zero(p), then result[coords] = 1.0 for i in 0..T::dimension()
unit(p) ==
    Tensor(p, 2,
           [c \in 0 .. get_num_coords(2) - 1 |->
               IF \E i \in 0 .. dimension - 1 : get_coord(UnitCoords(i)) = c
               THEN One ELSE Zero])

\* A transposition that writes every component back where it was read.
TransposeCoordsKept(coords) == <<coords[1], coords[2]>>

\* let coords2: &[usize] = &[coords[1], coords[0]]
TransposeCoords(coords) == <<coords[2], coords[1]>>

\* The items of self.iter_coords() whose coords2 has the flat offset c
TransposeWriters(c) ==
    {k \in 0 .. get_num_coords(2) - 1 :
        get_coord(TransposeCoords(CoordAt(k, 2))) = c}

\* zero(self.p), then result[coords2] = self[coords] for every item of
\* self.iter_coords(): a component keeps what was written to it last.
transpose(t) ==
    Tensor(t.p, 2,
           [c \in 0 .. get_num_coords(2) - 1 |->
               IF TransposeWriters(c) = {} THEN Zero
               ELSE t.x[get_coord(CoordAt(
                        CHOOSE k \in TransposeWriters(c) :
                            \A m \in TransposeWriters(c) : m <= k, 2))]])

InitMatrix ==
    /\ dimension \in 1 .. MaxDim
    /\ \E p \in {Origin, Shifted(0)} : a \in {t \in TensorsAt(p) : t.rank = 2}
    /\ b = ScalarOne
    /\ call = NoCall
    /\ out = Pending
    /\ iters = NoIterators
    /\ trail = <<>>
    /\ conv = NoConversion

\* transpose of the tensor, or of what the last transpose returned
TransposeOp ==
    /\ \/ /\ call = NoCall
          /\ call' = Called("transpose", <<1>>)
          /\ out' = Returned("tensor", transpose(a))
       \/ /\ call.op = "transpose"
          /\ call.args[1] < MaxTransposes
          /\ call' = Called("transpose", <<call.args[1] + 1>>)
          /\ out' = Returned("tensor", transpose(out.val))
    /\ UNCHANGED <<dimension, a, b, iters, trail, conv>>

\* unit at the point of the tensor
UnitOp ==
    /\ call = NoCall
    /\ call' = Called("unit", <<>>)
    /\ out' = Returned("tensor", unit(a.p))
    /\ UNCHANGED <<dimension, a, b, iters, trail, conv>>

\* trace<0, 1> of the unit tensor that unit returned
UnitTraceOp ==
    /\ call.op = "unit"
    /\ call' = Called("unit.trace", <<0, 1>>)
    /\ out' = trace(out.val, 0, 1)
    /\ UNCHANGED <<dimension, a, b, iters, trail, conv>>

NextMatrix ==
    \/ TransposeOp
    \/ UnitOp
    \/ UnitTraceOp

SpecMatrix == InitMatrix /\ [][NextMatrix]_vars

-----------------------------------------------------------------------------
(* The claims about indexing, contraction and products *)

MultiIndices(rank) == [1 .. rank -> 0 .. dimension - 1]

\* The sum over k of index_k * dimension^(rank-1-k)
RECURSIVE RowMajorFrom(_, _)
RowMajorFrom(i, k) ==
    IF k > Len(i) THEN 0
    ELSE i[k] * Pow(dimension, Len(i) - k) + RowMajorFrom(i, k + 1)

RowMajor(i) == RowMajorFrom(i, 1)

\* The multi-index c with v put in at slot pos (slots counted from 0).
InsertAt(c, pos, v) ==
    [k \in 1 .. Len(c) + 1 |->
        IF k < pos + 1 THEN c[k] ELSE IF k = pos + 1 THEN v ELSE c[k - 1]]

\* The sum over i of x at c with i put in at slots lo and hi.
RECURSIVE ContractedSum(_, _, _, _, _)
ContractedSum(x, c, lo, hi, n) ==
    IF n = 0 THEN Zero
    ELSE FAdd(ContractedSum(x, c, lo, hi, n - 1),
              x[RowMajor(InsertAt(InsertAt(c, lo, n - 1), hi, n - 1))])

\* The two-step definition of the inner product: trace<lo,hi>(a * b).
TraceOfProduct(lo, hi) ==
    IF mul(a, b).kind = "tensor" THEN trace(mul(a, b).val, lo, hi) ELSE Panic

InnerCalled == call.op = "inner_product" /\ PointEq(a.p, b.p)

\* C1: trace<lo,hi> of a rank r tensor returns a rank r-2 tensor whose
\* component at every multi-index c is the sum over i below dimension of
\* the source component at c with i inserted at slots lo and hi.
C1_TraceInsertsIndex ==
    call.op = "trace" =>
        /\ out.kind = "tensor"
        /\ out.val.rank = a.rank - 2
        /\ out.val.p = a.p
        /\ DOMAIN out.val.x = 0 .. Pow(dimension, a.rank - 2) - 1
        /\ \A c \in MultiIndices(a.rank - 2) :
               out.val.x[RowMajor(c)]
                   = ContractedSum(a.x, c, call.args[1], call.args[2], dimension)

\* A contraction of the two middle slots of a rank 4 tensor, with slots
\* before and after them, over more than one summand.
C1_Witness ==
    /\ call.op = "trace"
    /\ a.rank = 4
    /\ dimension = 2
    /\ call.args = <<1, 2>>
    /\ out.kind = "tensor"
    /\ out.val.x[3] = F(26)

\* C2: with the contracted slots split across the operands
\* (lo < rank(A) <= hi), inner_product(A, B) returns what trace<lo,hi>
\* returns on the product A * B, for operands at equal points.
C2_InnerSplitIsTraceOfProduct ==
    (InnerCalled /\ call.args[1] < a.rank /\ call.args[2] >= a.rank) =>
        /\ out.kind = "tensor"
        /\ out = TraceOfProduct(call.args[1], call.args[2])

C2_Witness ==
    /\ InnerCalled
    /\ dimension = 3
    /\ a.rank = 2
    /\ b.rank = 2
    /\ call.args = <<0, 3>>
    /\ out.kind = "tensor"
    /\ \E k \in DOMAIN out.val.x : out.val.x[k] # Zero

\* C3: with both contracted slots in the first operand (lo < hi < rank(A)),
\* inner_product(A, B) returns what trace<lo,hi> returns on the product
\* A * B, for operands at equal points.
C3_InnerBothFirstIsTraceOfProduct ==
    (InnerCalled /\ call.args[2] < a.rank) =>
        /\ out.kind = "tensor"
        /\ out = TraceOfProduct(call.args[1], call.args[2])

\* C4: with both contracted slots in the second operand (rank(A) <= lo < hi),
\* inner_product(A, B) ends without an out-of-range access and returns what
\* trace<lo,hi> returns on the product A * B, for operands at equal points.
C4_InnerBothSecondIsTraceOfProduct ==
    (InnerCalled /\ call.args[1] >= a.rank) =>
        /\ out.kind # "panic"
        /\ out = TraceOfProduct(call.args[1], call.args[2])

\* C5: the product of A (rank m) and B (rank n) at equal points has
\* dimension^(m+n) components, and its component at the concatenated
\* multi-index (i, j) is A[i] * B[j].
C5_ProductComponents ==
    (call.op = "mul" /\ PointEq(a.p, b.p)) =>
        /\ out.kind = "tensor"
        /\ out.val.rank = a.rank + b.rank
        /\ Cardinality(DOMAIN out.val.x) = Pow(dimension, a.rank + b.rank)
        /\ \A i \in MultiIndices(a.rank), j \in MultiIndices(b.rank) :
               out.val.x[RowMajor(i \o j)]
                   = FMul(a.x[RowMajor(i)], b.x[RowMajor(j)])

C5_Witness ==
    /\ call.op = "mul"
    /\ dimension = 3
    /\ a.rank = 2
    /\ b.rank = 1
    /\ out.kind = "tensor"
    /\ out.val.x[RowMajor(<<1, 2, 0>>)] = F(6)
    /\ out.val.x[RowMajor(<<1, 2, 2>>)] = F(18)

\* C12: addition, subtraction, tensor multiplication and inner_product of
\* two tensors whose points differ in a coordinate abort and produce no
\* result; with equal points they complete, and the result is anchored at
\* that same point.
C12_PointsMustAgree ==
    call.op \in {"add", "sub", "mul", "inner_product"} =>
        IF PointEq(a.p, b.p)
        THEN out.kind = "tensor" /\ out.val.p = a.p
        ELSE out = Panic

\* C6: for every multi-index of length rank with entries below dimension,
\* get_coord is the row-major offset, the sum over k of
\* index_k * dimension^(rank-1-k); the offset is below dimension^rank, no
\* other multi-index has it, and indexing by the multi-index reads the
\* component at that flat offset.
C6_GetCoordRowMajor ==
    (call.op = "index" /\ call.args \in MultiIndices(a.rank)) =>
        /\ get_coord(call.args) = RowMajor(call.args)
        /\ get_coord(call.args) < Pow(dimension, a.rank)
        /\ \A j \in MultiIndices(a.rank) :
               j # call.args => get_coord(j) # get_coord(call.args)
        /\ out = Returned("f64", a.x[RowMajor(call.args)])

C6_Witness ==
    /\ call.op = "index"
    /\ dimension = 3
    /\ call.args = <<2, 1>>
    /\ a.x = OneHot(9, 7)
    /\ out = Returned("f64", One)

-----------------------------------------------------------------------------
(* The claims about the coordinate iterator *)

\* No None among the first j items of the trail t.
NoNoneUpTo(t, j) == \A m \in 1 .. j : t[m].kind = "Some"

\* C7: a fresh coordinate iterator for rank r and dimension d yields, before
\* its first None, exactly d^r multi-indices: the k-th item (from 0) is the
\* multi-index of flat offset k, so it starts at the all-zero index, the
\* last slot varies fastest and no index repeats; for rank 0 that is the
\* empty index alone.  Each iterator iter_coords hands out does so whatever
\* is done with the others, and starts unstarted at the all-zero index.
C7_IteratorYieldsAllInOrder ==
    \A k \in DOMAIN iters :
        LET t == trail[k]
            n == Pow(dimension, a.rank)
        IN  /\ \A j \in 1 .. Len(t) :
                   NoNoneUpTo(t, j - 1) =>
                       IF j <= n
                       THEN /\ t[j].kind = "Some"
                            /\ t[j].val \in MultiIndices(a.rank)
                            /\ RowMajor(t[j].val) = j - 1
                       ELSE t[j] = None
            /\ Len(t) = 0 => iters[k] = CoordIteratorNew(dimension, a.rank)

\* One iterator has run through all nine indices of a rank 2 tensor of
\* dimension 3 and returned None, while a second one, created from the
\* same tensor, has yielded its first three.
C7_Witness ==
    /\ dimension = 3
    /\ a.rank = 2
    /\ Len(iters) = 2
    /\ Len(trail[1]) = 10
    /\ trail[1][9] = Some(<<2, 2>>)
    /\ trail[1][10] = None
    /\ Len(trail[2]) = 3
    /\ trail[2][3] = Some(<<0, 2>>)

-----------------------------------------------------------------------------
(* The claims about the inverse *)

\* The list s without its k-th entry.
Without(s, k) == [m \in 1 .. Len(s) - 1 |-> IF m < k THEN s[m] ELSE s[m + 1]]

\* The determinant of the rows and columns listed, expanded along the
\* first row listed.
RECURSIVE Minor(_, _, _)
RECURSIVE MinorSum(_, _, _, _)
Minor(x, rows, cols) ==
    IF Len(rows) = 0 THEN One ELSE MinorSum(x, rows, cols, Len(cols))

MinorSum(x, rows, cols, len) ==
    IF len = 0 THEN Zero
    ELSE LET term == FMul(At(x, rows[1], cols[len]),
                          Minor(x, Tail(rows), Without(cols, len)))
         IN  FAdd(MinorSum(x, rows, cols, len - 1),
                  IF len % 2 = 1 THEN term ELSE FNeg(term))

Det(x) ==
    LET all == [k \in 1 .. dimension |-> k - 1] IN Minor(x, all, all)

\* The sum over k of m[i, k] * n[k, j]
RECURSIVE MatMulAt(_, _, _, _, _)
MatMulAt(m, n, i, j, len) ==
    IF len = 0 THEN Zero
    ELSE FAdd(MatMulAt(m, n, i, j, len - 1),
              FMul(At(m, i, len - 1), At(n, len - 1, j)))

\* Equal up to floating tolerance: the difference is nothing, or of the
\* order of absmin.
Close(x, y) == IsFinite(FSub(x, y)) /\ (IsZero(FSub(x, y)) \/ FSub(x, y).e < 0)

IsInverseOf(n, m) ==
    \A i, j \in 0 .. dimension - 1 :
        Close(MatMulAt(m, n, i, j, dimension), IF i = j THEN One ELSE Zero)

\* C8: for every rank 2 tensor whose matrix is singular (determinant zero),
\* the all-zero matrix and the matrices with an all-zero row among them,
\* inverse returns None, never a tensor.
C8_SingularHasNoInverse ==
    (call.op = "inverse" /\ IsZero(Det(a.x))) => out = None

\* C9: for every invertible rank 2 tensor M, inverse(M) returns a tensor N
\* with the sum over k of M[i,k] * N[k,j] equal to 1 when i = j and to 0
\* otherwise, up to floating tolerance.
C9_InverseTimesMatrixIsUnit ==
    (call.op = "inverse" /\ ~IsZero(Det(a.x))) =>
        /\ out.kind = "Some"
        /\ IsInverseOf(out.val.x, a.x)

-----------------------------------------------------------------------------
(* The claims about the coordinate conversion *)

\* C10: when the Jacobian at the point is singular, its inverse being None,
\* inv_jacobian and convert hand the caller the explicit no-result value
\* None; they do not abort.
C10_SingularJacobianIsReported ==
    (call.op \in {"inv_jacobian", "convert"} /\ inverse(jacobian(a.p)) = None)
        => out = None

\* The multi-index with the flat offset k
IndexOfOffset(k, rank) == CHOOSE i \in MultiIndices(rank) : RowMajor(i) = k

\* The product over the slots 1 .. len of the Jacobian entry at
\* [i_k, j_k] for a contravariant slot k and of the inverse Jacobian entry
\* at [i_k, j_k] for a covariant one, times v
RECURSIVE SlotProduct(_, _, _, _, _, _)
SlotProduct(v, jac, inv, i, j, len) ==
    IF len = 0 THEN v
    ELSE FMul(SlotProduct(v, jac, inv, i, j, len - 1),
              IF conv.variance[len] = "Contravariant"
              THEN jac[RowMajor(<<i[len], j[len]>>)]
              ELSE inv[RowMajor(<<i[len], j[len]>>)])

\* The sum over the source multi-indices of the offsets below n
RECURSIVE ConvertedSum(_, _, _, _, _)
ConvertedSum(x, jac, inv, i, n) ==
    IF n = 0 THEN Zero
    ELSE FAdd(ConvertedSum(x, jac, inv, i, n - 1),
              SlotProduct(x[n - 1], jac, inv, i,
                          IndexOfOffset(n - 1, Len(i)), Len(i)))

ConvertedAs(jac, inv) ==
    /\ out.kind = "tensor"
    /\ out.val.rank = a.rank
    /\ out.val.p = convert_point(a.p)
    /\ DOMAIN out.val.x = 0 .. Pow(dimension, a.rank) - 1
    /\ \A i \in MultiIndices(a.rank) :
           out.val.x[RowMajor(i)]
               = ConvertedSum(a.x, jac, inv, i, Pow(dimension, a.rank))
    /\ a.rank = 0 => out.val.x[0] = a.x[0]

-----------------------------------------------------------------------------
(* The claims about unit and transpose *)

\* C13: for every rank 2 tensor A, transpose(A) is anchored at the point of
\* A and has transpose(A)[i,j] = A[j,i] for all i, j below dimension, and
\* transpose(transpose(A)) has exactly the components of A.
C13_TransposeSwapsAndUndoes ==
    call.op = "transpose" =>
        /\ out.kind = "tensor"
        /\ out.val.p = a.p
        /\ out.val.rank = 2
        /\ DOMAIN out.val.x = DOMAIN a.x
        /\ call.args[1] = 1 =>
               \A i, j \in 0 .. dimension - 1 :
                   out.val.x[RowMajor(<<i, j>>)] = a.x[RowMajor(<<j, i>>)]
        /\ call.args[1] = 2 => out.val.x = a.x

\* A matrix with nine different components away from the origin, transposed
\* twice; and the same matrix transposed once is not itself.
C13_Witness ==
    /\ call = Called("transpose", <<2>>)
    /\ dimension = 3
    /\ a.x = Ramp(9)
    /\ a.p = Shifted(0)
    /\ out.val.x[1] = F(2)
    /\ transpose(a).x[1] = F(4)

\* C14: for every dimension d and point p, unit(p) has the component 1 at
\* every [i,i] and 0 at every other place, and trace<0,1> of it is the
\* scalar whose one component is d.
C14_UnitIsDeltaWithTraceDimension ==
    /\ call.op = "unit" =>
           /\ out.kind = "tensor"
           /\ out.val.p = a.p
           /\ out.val.rank = 2
           /\ DOMAIN out.val.x = 0 .. dimension * dimension - 1
           /\ \A i, j \in 0 .. dimension - 1 :
                  out.val.x[RowMajor(<<i, j>>)] = IF i = j THEN One ELSE Zero
    /\ call.op = "unit.trace" =>
           /\ out.kind = "tensor"
           /\ out.val.rank = 0
           /\ out.val.p = a.p
           /\ DOMAIN out.val.x = {0}
           /\ out.val.x[0] = F(dimension)

\* The unit tensor of dimension 3 at a point away from the origin has been
\* contracted to the scalar 3.
C14_Witness ==
    /\ call.op = "unit.trace"
    /\ dimension = 3
    /\ a.p = Shifted(0)
    /\ out.kind = "tensor"
    /\ out.val.x[0] = F(3)

-----------------------------------------------------------------------------
(* The claim about an exhausted iterator *)

\* C15: once a coordinate iterator has returned None, every later call to
\* next on the same iterator returns None as well, for every rank and
\* dimension.
C15_ExhaustedStaysExhausted ==
    \A k \in DOMAIN iters :
        \A i \in 1 .. Len(trail[k]) : \A j \in i .. Len(trail[k]) :
            trail[k][i] = None => trail[k][j] = None

-----------------------------------------------------------------------------
(* The claim about the pivot rows *)

\* C16: in lu_decompose, for every column j the pivot row recorded in the
\* permutation vector lies in j..n-1: a row above j, finalized by an earlier
\* column, is never swapped with row j, also when every candidate entry of
\* column j is zero.
C16_PivotRowNotAboveColumn ==
    (call.op = "lu_decompose" /\ out # None) =>
        \A j \in 0 .. dimension - 1 :
            out.val.permute[j] \in j .. dimension - 1

-----------------------------------------------------------------------------
(* The claim about contraction under conversion *)

\* C17: conversion preserves full contraction: for every covector w and
\* vector v at one point p, and every conversion whose Jacobian at p is
\* invertible, the sum over i of convert(w)[i] * convert(v)[i] equals the
\* sum over i of w[i] * v[i], up to floating tolerance.
C17_ConversionPreservesContraction ==
    (call.op = "convert.inner_product" /\ ~IsZero(Det(jacobian(a.p).x))) =>
        /\ out.kind = "tensor"
        /\ Close(out.val.x[0], inner_product(a, b, 0, 1).val.x[0])

=============================================================================
